---- MODULE Spec2Model ----
(***************************************************************************)
(* Model of ui_reverse_doc.py: the reverse-documentation pipeline          *)
(*   main -> normalize_indentation -> build_steps -> to_pseudocode,        *)
(*                                                   to_mermaid            *)
(* Text is a sequence of characters; a character is a one-character        *)
(* string, and a non-ASCII character is a named token such as "U+2039".    *)
(***************************************************************************)
EXTENDS Integers, Sequences, FiniteSets, TLC

\* ------------------------------------------------------------------------
\* Characters and strings
\* ------------------------------------------------------------------------

\* A string literal as a sequence of one-character strings.
Chars(s) == [i \in 1..Len(s) |-> SubSeq(s, i, i)]

LowerLetters == {"a","b","c","d","e","f","g","h","i","j","k","l","m",
                 "n","o","p","q","r","s","t","u","v","w","x","y","z"}
UpperLetters == {"A","B","C","D","E","F","G","H","I","J","K","L","M",
                 "N","O","P","Q","R","S","T","U","V","W","X","Y","Z"}
Digits == {"0","1","2","3","4","5","6","7","8","9"}

\* \w and \s of Python's re module (over the characters used here).
WordChars == LowerLetters \cup UpperLetters \cup Digits \cup {"_"}
SpaceChars == {" ", "\t", "\n", "\r", "\f"}

\* The backtick, and the non-ASCII characters written by the program.
BACKTICK == "U+0060"
LSAQUO == "U+2039"
RSAQUO == "U+203A"
LDQUO == "U+201C"
RDQUO == "U+201D"
FWSEMI == "U+FF1B"
RSOLIDUS == "U+29F5"
MODGRAVE == "U+02CB"
LARROW == "U+2190"

Max(S) == CHOOSE m \in S : \A n \in S : n <= m
Min(S) == CHOOSE m \in S : \A n \in S : m <= n

\* str.lower() on the ASCII letters
LowerChar(c) ==
  CASE c = "A" -> "a" [] c = "B" -> "b" [] c = "C" -> "c" [] c = "D" -> "d"
    [] c = "E" -> "e" [] c = "F" -> "f" [] c = "G" -> "g" [] c = "H" -> "h"
    [] c = "I" -> "i" [] c = "J" -> "j" [] c = "K" -> "k" [] c = "L" -> "l"
    [] c = "M" -> "m" [] c = "N" -> "n" [] c = "O" -> "o" [] c = "P" -> "p"
    [] c = "Q" -> "q" [] c = "R" -> "r" [] c = "S" -> "s" [] c = "T" -> "t"
    [] c = "U" -> "u" [] c = "V" -> "v" [] c = "W" -> "w" [] c = "X" -> "x"
    [] c = "Y" -> "y" [] c = "Z" -> "z" [] OTHER -> c

\* Case folding used for patterns compiled with re.IGNORECASE.
Fold(s) == [i \in 1..Len(s) |-> LowerChar(s[i])]

\* str.lstrip(cs), str.rstrip(cs), str.strip()
LStrip(s, cs) ==
  SubSeq(s, Min({i \in 1..Len(s) : s[i] \notin cs} \cup {Len(s) + 1}), Len(s))

RStrip(s, cs) ==
  SubSeq(s, 1, Max({i \in 1..Len(s) : s[i] \notin cs} \cup {0}))

Strip(s) == RStrip(LStrip(s, SpaceChars), SpaceChars)

\* str.startswith(p), str.endswith(p)
StartsWith(s, p) == Len(s) >= Len(p) /\ SubSeq(s, 1, Len(p)) = p
EndsWith(s, p) == Len(s) >= Len(p) /\ SubSeq(s, Len(s) - Len(p) + 1, Len(s)) = p

\* str.replace(pat, r): non-overlapping occurrences of pat, left to right
RECURSIVE Replace(_, _, _)
Replace(s, pat, r) ==
  LET occ == {i \in 1..(Len(s) - Len(pat) + 1) : SubSeq(s, i, i + Len(pat) - 1) = pat}
  IN IF occ = {} THEN s
     ELSE LET i == Min(occ)
          IN SubSeq(s, 1, i - 1) \o r \o Replace(SubSeq(s, i + Len(pat), Len(s)), pat, r)

\* ------------------------------------------------------------------------
\* Regular expressions (the subset of Python's re used by the program)
\* ------------------------------------------------------------------------

In(cs) == [k |-> "in", cs |-> cs]
NotIn(cs) == [k |-> "notin", cs |-> cs]
AnyChar == [k |-> "any"]
WB == [k |-> "wb"]
Eol == [k |-> "eol"]
Cat(rs) == [k |-> "cat", sub |-> rs]
Alt(rs) == [k |-> "alt", sub |-> rs]
\* x* and x+ for a character class x (the only operands they have here)
Star(r) == [k |-> "star", sub |-> <<r>>]
Plus(r) == [k |-> "plus", sub |-> <<r>>]
Opt(r) == [k |-> "opt", sub |-> <<r>>]
Word(s) == Cat([i \in 1..Len(s) |-> In({SubSeq(s, i, i)})])
WordCh == In(WordChars)
Space == In(SpaceChars)

IsWordAt(s, i) == i >= 1 /\ i <= Len(s) /\ s[i] \in WordChars

\* Ends(r, s, P): the positions (number of characters consumed) at which a
\* match of r can end when it starts at one of the positions of P.
ClassHas(r, c) ==
  CASE r.k = "in" -> c \in r.cs
    [] r.k = "notin" -> c \notin r.cs
    [] r.k = "any" -> c # "\n"

\* Every character of s[p+1..q] is in the class r.
IsRun(r, s, p, q) == \A i \in (p + 1)..q : ClassHas(r, s[i])

RECURSIVE Ends(_, _, _)
Ends(r, s, P) ==
  CASE r.k \in {"in", "notin", "any"} ->
         {p + 1 : p \in {q \in P : q < Len(s) /\ ClassHas(r, s[q + 1])}}
    [] r.k = "wb" -> {p \in P : IsWordAt(s, p) # IsWordAt(s, p + 1)}
    [] r.k = "eol" -> {p \in P : p = Len(s) \/ (p = Len(s) - 1 /\ s[Len(s)] = "\n")}
    [] r.k = "cat" -> IF r.sub = <<>> THEN P
                      ELSE Ends(Cat(Tail(r.sub)), s, Ends(Head(r.sub), s, P))
    [] r.k = "alt" -> UNION {Ends(r.sub[i], s, P) : i \in DOMAIN r.sub}
    [] r.k = "opt" -> P \cup Ends(r.sub[1], s, P)
    [] r.k = "star" ->
         {q \in 0..Len(s) : \E p \in P : p <= q /\ IsRun(r.sub[1], s, p, q)}
    [] r.k = "plus" ->
         {q \in 0..Len(s) : \E p \in P : p < q /\ IsRun(r.sub[1], s, p, q)}

\* re.search(r, s) is not None
Search(r, s) == Ends(r, s, 0..Len(s)) # {}

\* Start of the leftmost match of r in s (re.search scans left to right).
MatchStart(r, s) == Min({p \in 0..Len(s) : Ends(r, s, {p}) # {}})

\* End chosen by a greedy element r started at p when rest must follow it.
GreedyEnd(r, rest, s, p) == Max({q \in Ends(r, s, {p}) : Ends(rest, s, {q}) # {}})

\* ------------------------------------------------------------------------
\* Pattern catalog and line classifier
\* ------------------------------------------------------------------------

Ch(c) == In({c})
\* \bname\s*\(
Call(name) == Cat(<<WB, Word(name), Star(Space), Ch("(")>>)

KEYWORDS ==
  [io_in |-> <<
      Call("input"),
      Call("scanf"),
      Cat(<<WB, Word("cin"), Star(Space), Word(">>")>>),
      Cat(<<WB, Word("Console.Read"), Opt(Word("Line")), Star(Space), Ch("(")>>),
      Call("readline"),
      Call("prompt"),
      Call("read"),
      Call("gets"),
      Call("std::getline"),
      Cat(<<WB, Word("BufferedReader"), WB, Star(AnyChar), Word("readLine"),
            Star(Space), Ch("(")>>),
      Cat(<<WB, Eol, Ch("_"), Alt(<<Word("GET"), Word("POST"), Word("REQUEST")>>), WB>>),
      Cat(<<WB, Word("fmt.Scan"), Opt(In({"f", "l", "n"})), Star(Space), Ch("(")>>) >>,
   io_out |-> <<
      Call("print"),
      Call("printf"),
      Cat(<<WB, Word("cout"), Star(Space), Word("<<")>>),
      Cat(<<WB, Word("Console.Write"), Opt(Word("Line")), Star(Space), Ch("(")>>),
      Cat(<<WB, Word("System.out.print"), Opt(Word("ln")), Star(Space), Ch("(")>>),
      Call("console.log"),
      Cat(<<WB, Word("echo"), WB>>),
      Cat(<<WB, Word("fmt.Print"), Opt(In({"f", "l", "n"})), Star(Space), Ch("(")>>) >>,
   if |-> <<
      Call("if"),
      Cat(<<WB, Word("if"), Plus(Space), Plus(NotIn({":"})), Ch(":")>>) >>,
   elif |-> <<
      Cat(<<WB, Word("else if"), WB>>),
      Cat(<<WB, Word("elif"), WB>>) >>,
   else |-> <<
      Cat(<<WB, Word("else"), WB>>) >>,
   for |-> <<
      Call("for"),
      Cat(<<WB, Word("for"), WB, Plus(Space), Plus(AnyChar), Plus(Space), Word("in"),
            Plus(Space), Plus(AnyChar), Ch(":")>>) >>,
   while |-> <<
      Call("while"),
      Cat(<<WB, Word("while"), WB, Star(Space), Plus(AnyChar), Ch(":")>>) >>,
   do |-> <<
      Cat(<<WB, Word("do"), Star(Space), Opt(Ch("{"))>>) >>,
   switch |-> <<
      Call("switch") >>,
   case |-> <<
      Cat(<<WB, Word("case"), WB>>) >>,
   default |-> <<
      Cat(<<WB, Word("default"), WB>>) >>,
   function |-> <<
      Cat(<<WB, Word("def"), Plus(Space), Plus(WordCh), Star(Space), Ch("(")>>),
      Cat(<<WB, Word("function"), Plus(Space), Plus(WordCh), Star(Space), Ch("(")>>),
      Cat(<<WB, Plus(WordCh), Plus(Space), Plus(WordCh), Star(Space), Ch("("),
            Star(NotIn({";"})), Ch(")"), Star(Space), Ch("{")>>),
      Cat(<<WB, Word("fn"), Plus(Space), Plus(WordCh), Star(Space), Ch("(")>>),
      Cat(<<WB, Word("func"), Plus(Space), Plus(WordCh), Star(Space), Ch("(")>>) >>,
   return |-> <<
      Cat(<<WB, Word("return"), WB>>) >>,
   open_block |-> << Ch("{") >>,
   close_block |-> << Ch("}") >>]

\* KEYWORDS.get(category, []) scanned in list order; True on the first hit.
detect_matches(line, category) ==
  LET pats == IF category \in DOMAIN KEYWORDS THEN KEYWORDS[category] ELSE <<>>
  IN \E i \in DOMAIN pats : Search(pats[i], line)

\* Mutant: the conditionals tested before the function patterns
StepOrder_ConditionalsFirst ==
  <<"if", "elif", "else", "function", "for", "while", "do", "switch",
    "case", "default", "return", "io_in", "io_out">>

\* The category list of line_to_step, in the order the loop visits it.
StepOrder == <<"function", "if", "elif", "else", "for", "while", "do", "switch",
               "case", "default", "return", "io_in", "io_out">>

RECURSIVE FirstMatch(_, _)
FirstMatch(line, cats) ==
  IF cats = <<>> THEN "process"
  ELSE IF detect_matches(line, Head(cats)) THEN Head(cats)
  ELSE FirstMatch(line, Tail(cats))

line_to_step(line) == FirstMatch(line, StepOrder)


\* ------------------------------------------------------------------------
\* normalize_indentation
\* ------------------------------------------------------------------------

LANGS == <<"python", "javascript", "java", "c", "cpp", "csharp", "php", "go", "rust">>

\* Python block keywords tested by stripped.startswith((...)) at line 157.
PyBlockStarts == {Chars("if "), Chars("elif "), Chars("else"), Chars("for "),
                  Chars("while "), Chars("def "), Chars("class ")}

\* Mutant: the decrement without its clamp
DecClamp_Unclamped(n) == n - 1

\* max(0, indent_level - 1)
DecClamp(n) == IF n - 1 > 0 THEN n - 1 ELSE 0

\* Mutant: a line that is only a closer is kept as a node
NormalizeLine_KeepCloser(st, raw, lang) ==
  LET stripped == Strip(RStrip(raw, {"\n"}))
  IN IF stripped = <<>> THEN st
     ELSE [indent_level |-> IF lang # "python" /\ EndsWith(stripped, Chars("{"))
                            THEN st.indent_level + 1 ELSE DecClamp(st.indent_level),
           out |-> Append(st.out, <<st.indent_level, stripped>>)]

\* Mutant: the python depth is tracked incrementally, never recomputed from
\* the leading spaces
NormalizeLine_Incremental(st, raw, lang) ==
  LET line == RStrip(raw, {"\n"})
      stripped == Strip(line)
      lvl1 == st.indent_level
      lvl2 == IF lang # "python" /\ EndsWith(stripped, Chars("{")) THEN lvl1 + 1 ELSE lvl1
      lvl3 == IF /\ lang = "python"
                 /\ Search(Cat(<<Ch(":"), Star(Space), Eol>>), stripped)
                 /\ \E kw \in PyBlockStarts : StartsWith(stripped, kw)
              THEN lvl2 + 1 ELSE lvl2
      lvl4 == IF lang # "python" /\ EndsWith(stripped, Chars("};"))
              THEN DecClamp(lvl3) ELSE lvl3
  IN IF \/ stripped = <<>>
        \/ StartsWith(stripped, Chars("//"))
        \/ StartsWith(stripped, Chars("#"))
        \/ StartsWith(stripped, Chars("/*"))
     THEN st
     ELSE IF stripped \in {Chars("}"), Chars("};")}
     THEN [st EXCEPT !.indent_level = DecClamp(st.indent_level)]
     ELSE IF stripped = Chars("{")
     THEN [st EXCEPT !.indent_level = IF lang # "python" THEN lvl1 + 1 ELSE lvl1]
     ELSE [indent_level |-> lvl4, out |-> Append(st.out, <<lvl1, stripped>>)]

\* Mutant: a line is recorded after the counter has moved for it
NormalizeLine_RecordAfter(st, raw, lang) ==
  LET line == RStrip(raw, {"\n"})
      stripped == Strip(line)
      lead == Len(line) - Len(LStrip(line, {" "}))
      lvl1 == IF lang = "python" THEN lead \div 4 ELSE st.indent_level
      lvl2 == IF lang # "python" /\ EndsWith(stripped, Chars("{")) THEN lvl1 + 1 ELSE lvl1
      lvl3 == IF /\ lang = "python"
                 /\ Search(Cat(<<Ch(":"), Star(Space), Eol>>), stripped)
                 /\ \E kw \in PyBlockStarts : StartsWith(stripped, kw)
              THEN lvl2 + 1 ELSE lvl2
      lvl4 == IF lang # "python" /\ EndsWith(stripped, Chars("};"))
              THEN DecClamp(lvl3) ELSE lvl3
  IN IF \/ stripped = <<>>
        \/ StartsWith(stripped, Chars("//"))
        \/ StartsWith(stripped, Chars("#"))
        \/ StartsWith(stripped, Chars("/*"))
     THEN st
     ELSE IF stripped \in {Chars("}"), Chars("};")}
     THEN [st EXCEPT !.indent_level = DecClamp(st.indent_level)]
     ELSE IF stripped = Chars("{")
     THEN [st EXCEPT !.indent_level = IF lang # "python" THEN lvl1 + 1 ELSE lvl1]
     ELSE [indent_level |-> lvl4, out |-> Append(st.out, <<lvl2, stripped>>)]

\* Mutant: a comment-only line resets the depth counter
NormalizeLine_CommentResets(st, raw, lang) ==
  LET line == RStrip(raw, {"\n"})
      stripped == Strip(line)
      lead == Len(line) - Len(LStrip(line, {" "}))
      lvl1 == IF lang = "python" THEN lead \div 4 ELSE st.indent_level
      lvl2 == IF lang # "python" /\ EndsWith(stripped, Chars("{")) THEN lvl1 + 1 ELSE lvl1
      lvl3 == IF /\ lang = "python"
                 /\ Search(Cat(<<Ch(":"), Star(Space), Eol>>), stripped)
                 /\ \E kw \in PyBlockStarts : StartsWith(stripped, kw)
              THEN lvl2 + 1 ELSE lvl2
      lvl4 == IF lang # "python" /\ EndsWith(stripped, Chars("};"))
              THEN DecClamp(lvl3) ELSE lvl3
  IN IF stripped = <<>> THEN st
     ELSE IF \/ StartsWith(stripped, Chars("//"))
             \/ StartsWith(stripped, Chars("#"))
             \/ StartsWith(stripped, Chars("/*"))
     THEN [st EXCEPT !.indent_level = 0]
     ELSE IF stripped \in {Chars("}"), Chars("};")}
     THEN [st EXCEPT !.indent_level = DecClamp(st.indent_level)]
     ELSE IF stripped = Chars("{")
     THEN [st EXCEPT !.indent_level = IF lang # "python" THEN lvl1 + 1 ELSE lvl1]
     ELSE [indent_level |-> lvl4, out |-> Append(st.out, <<lvl1, stripped>>)]

\* One iteration of the loop of normalize_indentation: st is the record
\* [indent_level, out] before the line raw, the result is the record after it.
NormalizeLine(st, raw, lang) ==
  LET line == RStrip(raw, {"\n"})
      stripped == Strip(line)
      lead == Len(line) - Len(LStrip(line, {" "}))
      lvl1 == IF lang = "python" THEN lead \div 4 ELSE st.indent_level
      lvl2 == IF lang # "python" /\ EndsWith(stripped, Chars("{")) THEN lvl1 + 1 ELSE lvl1
      lvl3 == IF /\ lang = "python"
                 /\ Search(Cat(<<Ch(":"), Star(Space), Eol>>), stripped)
                 /\ \E kw \in PyBlockStarts : StartsWith(stripped, kw)
              THEN lvl2 + 1 ELSE lvl2
      lvl4 == IF lang # "python" /\ EndsWith(stripped, Chars("};"))
              THEN DecClamp(lvl3) ELSE lvl3
  IN IF \/ stripped = <<>>
        \/ StartsWith(stripped, Chars("//"))
        \/ StartsWith(stripped, Chars("#"))
        \/ StartsWith(stripped, Chars("/*"))
     THEN st
     ELSE IF stripped \in {Chars("}"), Chars("};")}
     THEN [st EXCEPT !.indent_level = DecClamp(st.indent_level)]
     ELSE IF stripped = Chars("{")
     THEN [st EXCEPT !.indent_level = IF lang # "python" THEN lvl1 + 1 ELSE lvl1]
     ELSE [indent_level |-> lvl4, out |-> Append(st.out, <<lvl1, stripped>>)]

RECURSIVE NormalizeFrom(_, _, _)
NormalizeFrom(st, lines, lang) ==
  IF lines = <<>> THEN st
  ELSE NormalizeFrom(NormalizeLine(st, Head(lines), lang), Tail(lines), lang)

normalize_indentation(lines, lang) ==
  NormalizeFrom([indent_level |-> 0, out |-> <<>>], lines, lang).out

\* ------------------------------------------------------------------------
\* build_steps
\* ------------------------------------------------------------------------

StepTextMax == 140
StepTextKeep == 137

\* str(n) for n >= 0
DigitChar(d) == <<"0", "1", "2", "3", "4", "5", "6", "7", "8", "9">>[d + 1]
RECURSIVE IntStr(_)
IntStr(n) == IF n < 10 THEN <<DigitChar(n)>> ELSE IntStr(n \div 10) \o <<DigitChar(n % 10)>>

\* f"N{nid}"
NodeId(nid) == <<"N">> \o IntStr(nid)

\* Mutant: the start and end steps are not added
build_steps_NoTerminators(norm_lines) ==
  [i \in 1..Len(norm_lines) |->
     LET text == norm_lines[i][2]
     IN [id |-> NodeId(i - 1),
         type |-> line_to_step(text),
         text |-> IF Len(text) <= StepTextMax THEN text
                  ELSE SubSeq(text, 1, StepTextKeep) \o Chars("..."),
         indent |-> norm_lines[i][1]]]

\* Mutant: nid is not advanced after the start step
build_steps_StaleId(norm_lines) ==
  LET body == [i \in 1..Len(norm_lines) |->
                 LET text == norm_lines[i][2]
                 IN [id |-> NodeId(i - 1),
                     type |-> line_to_step(text),
                     text |-> IF Len(text) <= StepTextMax THEN text
                              ELSE SubSeq(text, 1, StepTextKeep) \o Chars("..."),
                     indent |-> norm_lines[i][1]]]
  IN <<[id |-> NodeId(0), type |-> "start", text |-> Chars("START"), indent |-> 0]>>
     \o body
     \o <<[id |-> NodeId(Len(norm_lines)), type |-> "end", text |-> Chars("END"),
           indent |-> 0]>>

build_steps(norm_lines) ==
  LET body == [i \in 1..Len(norm_lines) |->
                 LET text == norm_lines[i][2]
                 IN [id |-> NodeId(i),
                     type |-> line_to_step(text),
                     text |-> IF Len(text) <= StepTextMax THEN text
                              ELSE SubSeq(text, 1, StepTextKeep) \o Chars("..."),
                     indent |-> norm_lines[i][1]]]
  IN <<[id |-> NodeId(0), type |-> "start", text |-> Chars("START"), indent |-> 0]>>
     \o body
     \o <<[id |-> NodeId(Len(norm_lines) + 1), type |-> "end", text |-> Chars("END"),
           indent |-> 0]>>


\* ------------------------------------------------------------------------
\* Text extraction helpers of the pseudocode renderer
\* ------------------------------------------------------------------------

\* Span <<i, j>> of the group grp in the leftmost match of pre(grp)post in s:
\* the group is s[i+1..j].  Every quantifier is greedy, so each part ends at
\* the last position from which the remainder of the pattern still matches.
GroupSpan(pre, grp, post, s) ==
  LET start == MatchStart(Cat(<<pre, grp, post>>), s)
      i == GreedyEnd(pre, Cat(<<grp, post>>), s, start)
      j == GreedyEnd(grp, post, s, i)
  IN <<i, j>>

Group(pre, grp, post, s) ==
  LET sp == GroupSpan(pre, grp, post, s) IN SubSeq(s, sp[1] + 1, sp[2])

Empty == Cat(<<>>)

CondParen == <<Ch("("), Star(AnyChar), Ch(")")>>
CondColon == <<Cat(<<WB, Alt(<<Word("if"), Word("elif"), Word("while")>>), Plus(Space)>>),
               Plus(AnyChar), Ch(":")>>
CondSwitch == <<Cat(<<WB, Word("switch"), Star(Space), Ch("(")>>), Star(AnyChar), Ch(")")>>

extract_condition(txt) ==
  IF Search(Cat(CondParen), txt)
  THEN LET cond == Strip(RStrip(Strip(Group(CondParen[1], CondParen[2], CondParen[3], txt)),
                                {"{"}))
       IN IF cond # <<>> THEN cond ELSE Chars("<condition>")
  ELSE IF Search(Cat(CondColon), txt)
  THEN Strip(Group(CondColon[1], CondColon[2], CondColon[3], txt))
  ELSE IF Search(Cat(CondSwitch), Fold(txt))
  THEN LET sp == GroupSpan(CondSwitch[1], CondSwitch[2], CondSwitch[3], Fold(txt))
       IN Strip(SubSeq(txt, sp[1] + 1, sp[2]))
  ELSE Chars("<condition>")

LoopParen == <<Cat(<<Word("for"), Star(Space), Ch("(")>>), Star(AnyChar), Ch(")")>>
LoopInPre == Cat(<<Word("for"), Plus(Space)>>)
LoopInMid == Cat(<<Plus(Space), Word("in"), Plus(Space)>>)

extract_loop_header(txt) ==
  IF Search(Cat(LoopParen), txt)
  THEN Strip(Group(LoopParen[1], LoopParen[2], LoopParen[3], txt))
  ELSE IF Search(Cat(<<LoopInPre, Plus(AnyChar), LoopInMid, Plus(AnyChar), Ch(":")>>), txt)
  THEN LET tail == Cat(<<LoopInMid, Plus(AnyChar), Ch(":")>>)
           g1 == GroupSpan(LoopInPre, Plus(AnyChar), tail, txt)
           i2 == GreedyEnd(LoopInMid, Cat(<<Plus(AnyChar), Ch(":")>>), txt, g1[2])
           j2 == GreedyEnd(Plus(AnyChar), Ch(":"), txt, i2)
       IN Strip(SubSeq(txt, g1[1] + 1, g1[2])) \o Chars(" IN ")
          \o Strip(SubSeq(txt, i2 + 1, j2))
  ELSE Chars("<loop>")

CaseValue == <<Cat(<<WB, Word("case"), Plus(Space)>>), Plus(NotIn({":"})), Opt(Ch(":"))>>

extract_case_value(txt) ==
  IF Search(Cat(CaseValue), Fold(txt))
  THEN LET sp == GroupSpan(CaseValue[1], CaseValue[2], CaseValue[3], Fold(txt))
       IN Strip(SubSeq(txt, sp[1] + 1, sp[2]))
  ELSE Chars("<value>")

\* re.sub(r"\s+", " ", txt): every maximal whitespace run becomes one space
RECURSIVE CollapseSpace(_)
CollapseSpace(s) ==
  LET ws == {i \in 1..Len(s) : s[i] \in SpaceChars}
  IN IF ws = {} THEN s
     ELSE LET i == Min(ws)
          IN SubSeq(s, 1, i - 1) \o <<" ">>
             \o CollapseSpace(LStrip(SubSeq(s, i, Len(s)), SpaceChars))

compact_io(txt) == Strip(CollapseSpace(txt))

FuncName == <<Cat(<<WB, Alt(<<Word("def"), Word("function"), Word("fn"), Word("func")>>),
                    Plus(Space)>>),
              Plus(WordCh), Cat(<<Star(Space), Ch("(")>>)>>

\* lines 216-219: the procedure name of a function step
procedure_name(txt) ==
  IF Search(Cat(FuncName), txt)
  THEN Group(FuncName[1], FuncName[2], FuncName[3], txt)
  ELSE Chars("procedure")

ReturnValue == <<Cat(<<WB, Word("return"), WB>>), Star(AnyChar), Empty>>

\* lines 225-227: the text written for a return step
return_line(txt) ==
  LET val == IF Search(Cat(ReturnValue), Fold(txt))
             THEN LET sp == GroupSpan(ReturnValue[1], ReturnValue[2], ReturnValue[3],
                                      Fold(txt))
                  IN Strip(SubSeq(txt, sp[1] + 1, sp[2]))
             ELSE <<>>
  IN IF val # <<>> THEN Chars("RETURN ") \o val ELSE Chars("RETURN")

\* line 297: explicit closing keyword in the step text (re.IGNORECASE)
ClosingEvidence ==
  Cat(<<WB,
        Alt(<<Word("end"), Word("endif"), Word("end if"), Word("endfor"), Word("end for"),
              Word("endwhile"), Word("end while"),
              Cat(<<Word("break"), Opt(Ch(";"))>>)>>),
        WB>>)

has_closing_keyword(txt) == Search(ClosingEvidence, Fold(txt))


\* ------------------------------------------------------------------------
\* to_pseudocode
\* ------------------------------------------------------------------------

\* "  " * n (the empty string when n <= 0)
RECURSIVE Indent(_)
Indent(n) == IF n <= 0 THEN <<>> ELSE <<" ", " ">> \o Indent(n - 1)

\* max(1, indent - 1)
DecIndent(n) == IF n - 1 > 1 THEN n - 1 ELSE 1

\* The renderer's local state: pc (the output lines), indent, func_stack,
\* ctrl_stack.
PseudoInit == [pc |-> <<>>, indent |-> 0, func_stack |-> <<>>, ctrl_stack |-> <<>>]

\* w(s)
w(st, s) == [st EXCEPT !.pc = Append(@, Indent(st.indent) \o s)]

Push(st, stack, v) ==
  IF stack = "func" THEN [st EXCEPT !.func_stack = Append(@, v), !.indent = @ + 1]
  ELSE [st EXCEPT !.ctrl_stack = Append(@, v), !.indent = @ + 1]

\* Mutant: the CASE branch forgotten, a CASE block is popped silently
end_one_block_NoCase(st) ==
  LET last == st.ctrl_stack[Len(st.ctrl_stack)]
      popped == [st EXCEPT !.ctrl_stack = SubSeq(@, 1, Len(@) - 1)]
      write_fn(s) == [popped EXCEPT !.pc = Append(@, Indent(st.indent - 1) \o s)]
  IN CASE last = "IF" -> write_fn(Chars("END IF"))
       [] last = "FOR" -> write_fn(Chars("END FOR"))
       [] last = "WHILE" -> write_fn(Chars("END WHILE"))
       [] last = "DO" -> write_fn(Chars("END DO"))
       [] last = "SWITCH" -> write_fn(Chars("END SWITCH"))
       [] OTHER -> popped

\* end_one_block with the write_fn of its call sites,
\* lambda s: pc.append("  " * (indent-1) + s)
end_one_block(st) ==
  LET last == st.ctrl_stack[Len(st.ctrl_stack)]
      popped == [st EXCEPT !.ctrl_stack = SubSeq(@, 1, Len(@) - 1)]
      write_fn(s) == [popped EXCEPT !.pc = Append(@, Indent(st.indent - 1) \o s)]
  IN CASE last = "IF" -> write_fn(Chars("END IF"))
       [] last = "FOR" -> write_fn(Chars("END FOR"))
       [] last = "WHILE" -> write_fn(Chars("END WHILE"))
       [] last = "DO" -> write_fn(Chars("END DO"))
       [] last = "SWITCH" -> write_fn(Chars("END SWITCH"))
       [] last = "CASE" -> write_fn(Chars("// END CASE"))
       [] OTHER -> popped

\* Mutant: a block is closed without the indentation being decremented
close_block_NoDedent(st) == end_one_block(st)

\* lines 299-300 and 304-305: close one block, then indent = max(1, indent - 1)
close_block(st) == [end_one_block(st) EXCEPT !.indent = DecIndent(st.indent)]

\* lines 236-251: elif / else continue the IF on top of the control stack
continue_if(st, s) ==
  IF st.ctrl_stack # <<>> /\ st.ctrl_stack[Len(st.ctrl_stack)] = "IF"
  THEN [w([st EXCEPT !.indent = DecIndent(st.indent)], s) EXCEPT !.indent = @ + 1]
  ELSE w(st, s)

\* lines 215-294: the line written for one step and its stack effect
emit_step(st, node) ==
  LET t == node.type
      txt == node.text
  IN CASE t = "function" ->
            LET name == procedure_name(txt)
            IN Push(w(st, Chars("PROCEDURE ") \o name \o Chars("(...)")), "func", name)
       [] t = "return" -> w(st, return_line(txt))
       [] t = "if" ->
            Push(w(st, Chars("IF ") \o extract_condition(txt) \o Chars(" THEN")), "ctrl", "IF")
       [] t = "elif" ->
            continue_if(st, Chars("ELSE IF ") \o extract_condition(txt) \o Chars(" THEN"))
       [] t = "else" -> continue_if(st, Chars("ELSE"))
       [] t = "for" ->
            Push(w(st, Chars("FOR ") \o extract_loop_header(txt) \o Chars(" DO")), "ctrl", "FOR")
       [] t = "while" ->
            Push(w(st, Chars("WHILE ") \o extract_condition(txt) \o Chars(" DO")),
                 "ctrl", "WHILE")
       [] t = "do" -> Push(w(st, Chars("DO")), "ctrl", "DO")
       [] t = "switch" ->
            Push(w(st, Chars("SWITCH ") \o extract_condition(txt)), "ctrl", "SWITCH")
       [] t = "case" ->
            Push(w(st, Chars("CASE ") \o extract_case_value(txt) \o Chars(":")), "ctrl", "CASE")
       [] t = "default" -> Push(w(st, Chars("DEFAULT:")), "ctrl", "CASE")
       [] t = "io_in" ->
            w(st, Chars("INPUT  ") \o <<LARROW>> \o Chars("  ") \o compact_io(txt))
       [] t = "io_out" ->
            w(st, Chars("OUTPUT ") \o <<LARROW>> \o Chars("  ") \o compact_io(txt))
       [] OTHER -> w(st, Chars("PROCESS ") \o txt)

\* lines 297-300: the closing heuristic run after the step's line
close_on_keyword(st, node) ==
  IF has_closing_keyword(node.text) /\ st.ctrl_stack # <<>> THEN close_block(st) ELSE st

\* Mutant: a step recorded at a depth below the number of open blocks first
\* closes the innermost control block
pseudo_node_DedentCloses(st, node) ==
  IF node.type \in {"start", "end"} THEN st
  ELSE LET closed == IF /\ st.ctrl_stack # <<>>
                        /\ node.indent < Len(st.ctrl_stack) + Len(st.func_stack)
                     THEN close_block(st) ELSE st
       IN close_on_keyword(emit_step(closed, node), node)

\* One iteration of the loop over steps (lines 208-300).
pseudo_node(st, node) ==
  IF node.type \in {"start", "end"} THEN st
  ELSE close_on_keyword(emit_step(st, node), node)

\* lines 202-203
pseudo_begin == [w(PseudoInit, Chars("BEGIN")) EXCEPT !.indent = @ + 1]

\* lines 308-311: one iteration of the loop closing procedures
close_procedure(st) ==
  LET name == st.func_stack[Len(st.func_stack)]
      popped == [st EXCEPT !.func_stack = SubSeq(@, 1, Len(@) - 1),
                           !.indent = DecIndent(st.indent)]
  IN w(popped, Chars("END PROCEDURE  // ") \o name)

\* Mutant: END written without the final dedent
pseudo_end_NoDedent(st) == w(st, Chars("END"))

\* lines 313-314
pseudo_end(st) ==
  w([st EXCEPT !.indent = IF st.indent - 1 > 0 THEN st.indent - 1 ELSE 0], Chars("END"))

RECURSIVE PseudoNodes(_, _)
PseudoNodes(st, steps) ==
  IF steps = <<>> THEN st ELSE PseudoNodes(pseudo_node(st, Head(steps)), Tail(steps))

RECURSIVE CloseBlocks(_)
CloseBlocks(st) == IF st.ctrl_stack = <<>> THEN st ELSE CloseBlocks(close_block(st))

RECURSIVE CloseProcedures(_)
CloseProcedures(st) ==
  IF st.func_stack = <<>> THEN st ELSE CloseProcedures(close_procedure(st))

\* The list pc of to_pseudocode; the function returns "\n".join(pc).
to_pseudocode(steps) ==
  pseudo_end(CloseProcedures(CloseBlocks(PseudoNodes(pseudo_begin, steps)))).pc


\* ------------------------------------------------------------------------
\* escape_mermaid and to_mermaid
\* ------------------------------------------------------------------------

RECURSIVE ReplaceEach(_, _)
\* a chain of s.replace(pat, r) calls, reps being the <<pat, r>> pairs in order
ReplaceEach(s, reps) ==
  IF reps = <<>> THEN s
  ELSE ReplaceEach(Replace(s, Head(reps)[1], Head(reps)[2]), Tail(reps))

\* Mutant: double quotes are left in the label
escape_mermaid_KeepQuote(s) ==
  ReplaceEach(Strip(CollapseSpace(s)),
    << <<Chars("["), <<>> >>, <<Chars("]"), <<>> >>, <<Chars("{"), <<>> >>,
       <<Chars("}"), <<>> >>, <<Chars("("), <<>> >>, <<Chars(")"), <<>> >>,
       <<Chars("<<"), <<LSAQUO, LSAQUO>> >>, <<Chars("<"), <<LSAQUO>> >>,
       <<Chars(">"), <<RSAQUO>> >>,
       <<Chars(";"), <<FWSEMI>> >>,
       <<Chars("\\"), <<RSOLIDUS>> >>, << <<BACKTICK>>, <<MODGRAVE>> >> >>)

escape_mermaid(s) ==
  ReplaceEach(Strip(CollapseSpace(s)),
    << <<Chars("["), <<>> >>, <<Chars("]"), <<>> >>, <<Chars("{"), <<>> >>,
       <<Chars("}"), <<>> >>, <<Chars("("), <<>> >>, <<Chars(")"), <<>> >>,
       <<Chars("<<"), <<LSAQUO, LSAQUO>> >>, <<Chars("<"), <<LSAQUO>> >>,
       <<Chars(">"), <<RSAQUO>> >>,
       <<Chars("\""), <<>> >>, << <<LDQUO>>, <<>> >>, << <<RDQUO>>, <<>> >>,
       <<Chars(";"), <<FWSEMI>> >>,
       <<Chars("\\"), <<RSOLIDUS>> >>, << <<BACKTICK>>, <<MODGRAVE>> >> >>)

ISO_FLOWCHART == TRUE

LabelMax == 120
LabelKeep == 117

DecisionTypes == {"if", "elif", "else", "while", "switch", "case", "default"}
TermTypes == {"start", "end"}
IoTypes == {"io_in", "io_out"}

\* lines 409-414: the text placed inside the node's shape
mm_text(node) ==
  LET cut == IF Len(node.text) > LabelMax
             THEN SubSeq(node.text, 1, LabelKeep) \o Chars("...") ELSE node.text
      text == Strip(escape_mermaid(cut))
  IN IF text = <<>> THEN Chars("NO-OP") ELSE text

\* lines 417-429: the delimiters <<open, close>> of the node's shape
mm_shape(node) ==
  IF node.type \in DecisionTypes THEN <<Chars("{"), Chars("}")>>
  ELSE IF node.type \in TermTypes THEN <<Chars("("), Chars(")")>>
  ELSE IF node.type \in IoTypes
  THEN IF ISO_FLOWCHART THEN <<Chars("[/"), Chars("/]")>>
       ELSE <<Chars("[") \o (IF node.type = "io_in" THEN Chars("INPUT") ELSE Chars("OUTPUT"))
              \o Chars(": "), Chars("]")>>
  ELSE <<Chars("["), Chars("]")>>

mm_label(node) == node.id \o mm_shape(node)[1] \o mm_text(node) \o mm_shape(node)[2]

ClassDef(name) ==
  Chars("  classDef ") \o name \o Chars(" stroke:#000,stroke-width:1.5px,fill:#fff,color:#000;")

\* Mutant: the class loop's decision list lacks else
class_line_ElseAsProcess(n) ==
  IF n.type \in IoTypes THEN <<Chars("  class ") \o n.id \o Chars(" io;")>>
  ELSE IF n.type \in DecisionTypes \ {"else"}
  THEN <<Chars("  class ") \o n.id \o Chars(" decision;")>>
  ELSE IF n.type \notin TermTypes THEN <<Chars("  class ") \o n.id \o Chars(" process;")>>
  ELSE <<>>

\* lines 453-460: the class line of a step, <<>> for start and end
class_line(n) ==
  IF n.type \in IoTypes THEN <<Chars("  class ") \o n.id \o Chars(" io;")>>
  ELSE IF n.type \in DecisionTypes THEN <<Chars("  class ") \o n.id \o Chars(" decision;")>>
  ELSE IF n.type \notin TermTypes THEN <<Chars("  class ") \o n.id \o Chars(" process;")>>
  ELSE <<>>

RECURSIVE ClassLines(_)
ClassLines(steps) ==
  IF steps = <<>> THEN <<>> ELSE class_line(Head(steps)) \o ClassLines(Tail(steps))

\* to_mermaid with the edge loop stopping one pair early
to_mermaid_ShortEdgeLoop(steps) ==
  <<Chars("flowchart TD")>>
  \o [i \in 1..Len(steps) |-> Chars("  ") \o mm_label(steps[i])]
  \o [i \in 1..(Len(steps) - 2) |->
        Chars("  ") \o steps[i].id \o Chars(" --> ") \o steps[i + 1].id]
  \o <<ClassDef(Chars("default")), ClassDef(Chars("term")), ClassDef(Chars("io")),
       ClassDef(Chars("decision")), ClassDef(Chars("process"))>>
  \o <<Chars("  class ") \o steps[1].id \o Chars(" term;"),
       Chars("  class ") \o steps[Len(steps)].id \o Chars(" term;")>>
  \o ClassLines(steps)
  \o <<Chars("  linkStyle default stroke:#000,stroke-width:1.5px;")>>

\* The list out of to_mermaid; the function returns "\n".join(out).
to_mermaid(steps) ==
  <<Chars("flowchart TD")>>
  \o [i \in 1..Len(steps) |-> Chars("  ") \o mm_label(steps[i])]
  \o [i \in 1..(Len(steps) - 1) |->
        Chars("  ") \o steps[i].id \o Chars(" --> ") \o steps[i + 1].id]
  \o <<ClassDef(Chars("default")), ClassDef(Chars("term")), ClassDef(Chars("io")),
       ClassDef(Chars("decision")), ClassDef(Chars("process"))>>
  \o <<Chars("  class ") \o steps[1].id \o Chars(" term;"),
       Chars("  class ") \o steps[Len(steps)].id \o Chars(" term;")>>
  \o ClassLines(steps)
  \o <<Chars("  linkStyle default stroke:#000,stroke-width:1.5px;")>>


\* ------------------------------------------------------------------------
\* main: language selection
\* ------------------------------------------------------------------------

RECURSIVE DigitsValue(_)
DigitsValue(ds) ==
  IF ds = <<>> THEN 0
  ELSE 10 * DigitsValue(SubSeq(ds, 1, Len(ds) - 1))
       + (CHOOSE d \in 0..9 : DigitChar(d) = ds[Len(ds)])

\* int(text): [ok |-> FALSE] stands for ValueError
ParseInt(text) ==
  LET t == Strip(text)
      signed == t # <<>> /\ t[1] \in {"+", "-"}
      ds == IF signed THEN Tail(t) ELSE t
  IN IF ds # <<>> /\ \A i \in DOMAIN ds : ds[i] \in Digits
     THEN [ok |-> TRUE, val |-> IF signed /\ t[1] = "-" THEN 0 - DigitsValue(ds)
                                ELSE DigitsValue(ds)]
     ELSE [ok |-> FALSE, val |-> 0]

\* LANGS[i] with Python's list indexing: a negative index counts from the
\* end, an index outside -len..len-1 raises IndexError ([ok |-> FALSE]).
PyIndex(list, i) ==
  IF 0 <= i /\ i < Len(list) THEN [ok |-> TRUE, val |-> list[i + 1]]
  ELSE IF 0 - Len(list) <= i /\ i < 0 THEN [ok |-> TRUE, val |-> list[Len(list) + i + 1]]
  ELSE [ok |-> FALSE, val |-> ""]

\* lines 531-536: the language chosen for the text typed at the prompt
select_language(typed) ==
  LET choice == ParseInt(Strip(typed))
      picked == PyIndex(LANGS, choice.val - 1)
  IN IF choice.ok /\ picked.ok THEN picked.val ELSE "python"

\* ------------------------------------------------------------------------
\* Inputs
\* ------------------------------------------------------------------------

\* Longest program drawn from Pool
MaxLines == 2

\* Texts typed at the language prompt
Selectors == {Chars("1"), Chars("9"), Chars("0"), Chars("-9"), Chars("10"), Chars("x"), <<>>}

LongLine == Chars("s = \"") \o [i \in 1..141 |-> "a"] \o Chars("\";")

Pool == {
  Chars("def f(x):"),
  Chars("    if x > 0:"),
  Chars("        return x"),
  Chars("for (i=0;i<10;i++) {"),
  Chars("printf(\"hi\");"),
  Chars("}"),
  Chars("};"),
  Chars("{"),
  <<>>,
  Chars("  // note"),
  Chars("} else {"),
  Chars("    elif y < 0:"),
  Chars("if (x) break;"),
  Chars("case 1:"),
  Chars("int a[] = {1};"),
  Chars("x = end") }

\* The conditional function of the spec's scenario
FunctionWithConditional ==
  <<Chars("def f(x):"), Chars("    if x > 0:"), Chars("        return x"),
    Chars("    return -x")>>

\* The brace loop of the spec's scenario
BraceLoop == <<Chars("for (i=0;i<10;i++) {"), Chars("printf(\"hi\");"), Chars("}")>>

\* Longer programs: the remaining categories, nested blocks, else chains,
\* unmatched closers, a line longer than both length caps, a comment inside
\* a block, a function defined inside a conditional
Samples == {
  FunctionWithConditional,
  BraceLoop,
  <<Chars("}"), Chars("};"), Chars("}"), Chars("x = end")>>,
  <<Chars("switch (k) {"), Chars("case 1:"), Chars("if (x) break;"), Chars("default:"),
    Chars("}")>>,
  <<Chars("    if x > 0:"), Chars("        return x"), Chars("    elif y < 0:"),
    Chars("    return -x")>>,
  <<Chars("while (x) {"), Chars("def f(x):"), Chars("x = end"), Chars("x = end")>>,
  <<Chars("do {"), Chars("x = input()"), Chars("else if (x) {"), LongLine>>,
  <<Chars("( )"), Chars("cout << \"a;b\" << x;")>>,
  <<Chars("for (i=0;i<10;i++) {"), Chars("  // note"), Chars("printf(\"hi\");"),
    Chars("}")>>,
  <<Chars("    if x > 0:"), Chars("def f(x):"), Chars("    elif y < 0:")>> }

Files == UNION {[1..n -> Pool] : n \in 0..MaxLines} \cup Samples

\* ------------------------------------------------------------------------
\* The program: main as a state machine
\* ------------------------------------------------------------------------

VARIABLES
  stage,      \* where main is
  typed,      \* the text typed at the language prompt, while main still uses it
  lang,       \* main's lang
  code,       \* main's code: the lines read from the file
  ni,         \* normalize_indentation: lines consumed by its loop
  nst,        \* normalize_indentation: indent_level and out
  steps,      \* main's steps
  si,         \* to_pseudocode: steps consumed by its loop
  pst,        \* to_pseudocode: pc, indent, func_stack, ctrl_stack
  pushes,     \* history: pushes performed on func_stack and ctrl_stack
  pseudocode, \* main's pseudocode, as its list of lines
  mermaid     \* main's mermaid, as its list of lines

vars == <<stage, typed, lang, code, ni, nst, steps, si, pst, pushes, pseudocode, mermaid>>

NormInit == [indent_level |-> 0, out |-> <<>>]

Init ==
  /\ stage = "select"
  /\ typed = <<>>
  /\ lang = ""
  /\ code = <<>>
  /\ ni = 0
  /\ nst = NormInit
  /\ steps = <<>>
  /\ si = 0
  /\ pst = PseudoInit
  /\ pushes = 0
  /\ pseudocode = <<>>
  /\ mermaid = <<>>

\* lines 531-536
SelectLanguage(text) ==
  /\ stage = "select"
  /\ typed' = text
  /\ lang' = select_language(text)
  /\ stage' = "path"
  /\ UNCHANGED <<code, ni, nst, steps, si, pst, pushes, pseudocode, mermaid>>

\* lines 538-546: an empty path or a missing file ends main
NoFile ==
  /\ stage = "path"
  /\ stage' = "exit"
  /\ typed' = <<>>
  /\ UNCHANGED <<lang, code, ni, nst, steps, si, pst, pushes, pseudocode, mermaid>>

\* line 548, and the entry of normalize_indentation (lines 119-120)
ReadFile(lines) ==
  /\ stage = "path"
  /\ code' = lines
  /\ typed' = <<>>
  /\ ni' = 0
  /\ nst' = NormInit
  /\ stage' = "normalize"
  /\ UNCHANGED <<lang, steps, si, pst, pushes, pseudocode, mermaid>>

\* lines 122-163: one iteration of the loop of normalize_indentation
NormalizeStep ==
  /\ stage = "normalize"
  /\ ni < Len(code)
  /\ nst' = NormalizeLine(nst, code[ni + 1], lang)
  /\ ni' = ni + 1
  /\ UNCHANGED <<stage, typed, lang, code, steps, si, pst, pushes, pseudocode, mermaid>>

\* lines 165 and 552: normalize_indentation returns, build_steps runs
BuildSteps ==
  /\ stage = "normalize"
  /\ ni = Len(code)
  /\ steps' = build_steps(nst.out)
  /\ stage' = "begin"
  /\ UNCHANGED <<typed, lang, code, ni, nst, si, pst, pushes, pseudocode, mermaid>>

\* lines 196-206
PseudoBegin ==
  /\ stage = "begin"
  /\ pst' = pseudo_begin
  /\ si' = 0
  /\ pushes' = 0
  /\ stage' = "steps"
  /\ UNCHANGED <<typed, lang, code, ni, nst, steps, pseudocode, mermaid>>

StackSize(st) == Len(st.func_stack) + Len(st.ctrl_stack)

\* lines 208-300: one iteration of the loop over steps
PseudoStep ==
  /\ stage = "steps"
  /\ si < Len(steps)
  /\ LET node == steps[si + 1]
     IN /\ pst' = pseudo_node(pst, node)
        /\ pushes' = IF node.type \in {"start", "end"} THEN pushes
                     ELSE pushes + StackSize(emit_step(pst, node)) - StackSize(pst)
  /\ si' = si + 1
  /\ UNCHANGED <<stage, typed, lang, code, ni, nst, steps, pseudocode, mermaid>>

\* lines 303-305: one iteration of the loop closing control blocks
CloseBlock ==
  /\ stage = "steps"
  /\ si = Len(steps)
  /\ pst.ctrl_stack # <<>>
  /\ pst' = close_block(pst)
  /\ UNCHANGED <<stage, typed, lang, code, ni, nst, steps, si, pushes, pseudocode, mermaid>>

\* lines 308-311: one iteration of the loop closing procedures
CloseProcedure ==
  /\ stage = "steps"
  /\ si = Len(steps)
  /\ pst.ctrl_stack = <<>>
  /\ pst.func_stack # <<>>
  /\ pst' = close_procedure(pst)
  /\ UNCHANGED <<stage, typed, lang, code, ni, nst, steps, si, pushes, pseudocode, mermaid>>

\* lines 313-315: to_pseudocode writes END and returns
PseudoEnd ==
  /\ stage = "steps"
  /\ si = Len(steps)
  /\ pst.ctrl_stack = <<>>
  /\ pst.func_stack = <<>>
  /\ pst' = pseudo_end(pst)
  /\ pseudocode' = pseudo_end(pst).pc
  /\ stage' = "mermaid"
  /\ UNCHANGED <<typed, lang, code, ni, nst, steps, si, pushes, mermaid>>

\* line 555: to_mermaid; steps[0] of an empty list raises IndexError
Mermaid ==
  /\ stage = "mermaid"
  /\ IF steps = <<>>
     THEN stage' = "error" /\ UNCHANGED mermaid
     ELSE stage' = "done" /\ mermaid' = to_mermaid(steps)
  /\ UNCHANGED <<typed, lang, code, ni, nst, steps, si, pst, pushes, pseudocode>>

Next ==
  \/ \E text \in Selectors : SelectLanguage(text)
  \/ NoFile
  \/ \E lines \in Files : ReadFile(lines)
  \/ NormalizeStep
  \/ BuildSteps
  \/ PseudoBegin
  \/ PseudoStep
  \/ CloseBlock
  \/ CloseProcedure
  \/ PseudoEnd
  \/ Mermaid

Spec == Init /\ [][Next]_vars

TypeOK ==
  /\ stage \in {"select", "path", "exit", "normalize", "begin", "steps", "mermaid", "done", "error"}
  /\ lang \in {""} \cup {LANGS[i] : i \in DOMAIN LANGS}
  /\ ni \in 0..Len(code)
  /\ si \in 0..Len(steps)


\* ------------------------------------------------------------------------
\* Properties
\* ------------------------------------------------------------------------

\* The pseudocode lines without their indentation
Stripped(lines) == [i \in DOMAIN lines |-> Strip(lines[i])]

\* pat occurs in s as a subsequence (in order, not necessarily adjacent)
RECURSIVE IsSubsequence(_, _)
IsSubsequence(pat, s) ==
  IF pat = <<>> THEN TRUE
  ELSE IF s = <<>> THEN FALSE
  ELSE IF Head(pat) = Head(s) THEN IsSubsequence(Tail(pat), Tail(s))
  ELSE IsSubsequence(pat, Tail(s))

\* pat occurs in s as a block of adjacent elements
IsFragment(pat, s) ==
  \E i \in 1..(Len(s) - Len(pat) + 1) : SubSeq(s, i, i + Len(pat) - 1) = pat

\* C1: for the program FunctionWithConditional under python, the pseudocode
\* contains PROCEDURE f(...), IF x > 0 THEN, RETURN x, END IF, RETURN -x,
\* END PROCEDURE  // f in that order: END IF comes before the dedented
\* RETURN -x.
C1_EndIfBeforeDedent ==
  (stage = "done" /\ code = FunctionWithConditional /\ lang = "python")
    => IsSubsequence(<<Chars("PROCEDURE f(...)"), Chars("IF x > 0 THEN"),
                       Chars("RETURN x"), Chars("END IF"), Chars("RETURN -x"),
                       Chars("END PROCEDURE  // f")>>,
                     Stripped(pseudocode))

ControlEnds == {Chars("END IF"), Chars("END FOR"), Chars("END WHILE"), Chars("END DO"),
                Chars("END SWITCH"), Chars("// END CASE")}

IsClosingLine(l) == l \in ControlEnds \/ StartsWith(l, Chars("END PROCEDURE"))

ClosingLines(lines) ==
  Cardinality({i \in DOMAIN lines : IsClosingLine(Strip(lines[i]))})

\* C2: when to_pseudocode has returned, the control stack and the function
\* stack are empty and the output holds as many closing lines as pushes were
\* performed on the two stacks.
C2_EveryPushClosedOnce ==
  stage \in {"mermaid", "done"}
    => /\ pst.ctrl_stack = <<>>
       /\ pst.func_stack = <<>>
       /\ ClosingLines(pseudocode) = pushes

\* to_pseudocode returned after pushing on both stacks and after closing a
\* block on a closing keyword.
C2_Witness ==
  /\ stage = "done"
  /\ pushes >= 2
  /\ \E i \in DOMAIN pseudocode : StartsWith(Strip(pseudocode[i]), Chars("END PROCEDURE"))
  /\ \E i \in DOMAIN steps : has_closing_keyword(steps[i].text)

\* C3: every depth recorded by normalize_indentation is >= 0 and so is the
\* running depth counter after every line.
C3_DepthNonNegative ==
  /\ nst.indent_level >= 0
  /\ \A i \in DOMAIN nst.out : nst.out[i][1] >= 0

\* Two unmatched closers have been processed in a brace language.
C3_Witness ==
  /\ stage = "normalize"
  /\ lang # "python"
  /\ ni >= 2
  /\ code[ni] \in {Chars("}"), Chars("};")}
  /\ code[ni - 1] \in {Chars("}"), Chars("};")}
  /\ nst.indent_level = 0


Built == stage \in {"begin", "steps", "mermaid", "done"}

\* C4: build_steps returns len(normalized) + 2 steps, the first of type
\* start, the last of type end, no other of either type, and step k (from 0)
\* has the id "N<k>".
C4_StepSequence ==
  Built =>
    /\ Len(steps) = Len(nst.out) + 2
    /\ steps[1].type = "start"
    /\ steps[Len(steps)].type = "end"
    /\ \A k \in 2..(Len(steps) - 1) : steps[k].type \notin {"start", "end"}
    /\ \A k \in DOMAIN steps :
         /\ steps[k].id # <<>>
         /\ Head(steps[k].id) = "N"
         /\ ParseInt(Tail(steps[k].id)) = [ok |-> TRUE, val |-> k - 1]

\* build_steps has wrapped at least three normalized lines.
C4_Witness == stage = "begin" /\ Len(nst.out) >= 3 /\ Len(steps) = Len(nst.out) + 2

IsEdgeLine(l) == IsFragment(Chars(" --> "), l)
IsNodeLine(l) == StartsWith(l, Chars("  N")) /\ ~IsEdgeLine(l)
NodeLines(lines) == SelectSeq(lines, IsNodeLine)
EdgeLines(lines) == SelectSeq(lines, IsEdgeLine)

BraceLoopRun == stage = "done" /\ code = BraceLoop /\ lang # "python"

\* C5 as claimed: for the program BraceLoop under a brace language the graph
\* has three nodes between start and end, and the pseudocode has the adjacent
\* lines FOR i=0;i<10;i++ DO, PROCESS printf("hi");, END FOR.
C5_AsClaimed ==
  BraceLoopRun =>
    /\ Len(NodeLines(mermaid)) - 2 = 3
    /\ IsFragment(<<Chars("FOR i=0;i<10;i++ DO"), Chars("PROCESS printf(\"hi\");"),
                    Chars("END FOR")>>, Stripped(pseudocode))

\* C5 amended: for the program BraceLoop under a brace language the graph has
\* two nodes between start and end (the line } makes none), and the
\* pseudocode has the adjacent lines FOR i=0;i<10;i++ DO,
\* OUTPUT <-  printf("hi"); (an output line, with the arrow U+2190), END FOR.
C5_BraceLoop ==
  BraceLoopRun =>
    /\ Len(NodeLines(mermaid)) - 2 = 2
    /\ IsFragment(<<Chars("FOR i=0;i<10;i++ DO"),
                    Chars("OUTPUT ") \o <<LARROW>> \o Chars("  printf(\"hi\");"),
                    Chars("END FOR")>>, Stripped(pseudocode))

\* The program BraceLoop has been rendered under a brace language.
C5_Witness == BraceLoopRun /\ Len(steps) = 4 /\ Len(pseudocode) = 5

\* C6: for zero source lines the steps are [start, end], the pseudocode is
\* the two unindented lines BEGIN and END, and the graph has two node
\* declarations and the single edge N0 --> N1.
C6_EmptyInput ==
  (stage = "done" /\ code = <<>>) =>
    /\ [i \in DOMAIN steps |-> steps[i].type] = <<"start", "end">>
    /\ pseudocode = <<Chars("BEGIN"), Chars("END")>>
    /\ Len(NodeLines(mermaid)) = 2
    /\ EdgeLines(mermaid) = <<Chars("  N0 --> N1")>>

\* The empty file has been rendered.
C6_Witness == stage = "done" /\ code = <<>> /\ mermaid # <<>>


\* The typed text is one of the choices the menu offers: an integer in 1..9.
IsMenuChoice(text) == ParseInt(text).ok /\ ParseInt(text).val \in 1..Len(LANGS)

\* C7: a text typed at the language prompt that is not an integer in 1..9
\* selects the default language python.
C7_UnsupportedSelectsDefault ==
  (stage = "path" /\ ~IsMenuChoice(typed)) => lang = "python"

LabelForbidden == {"[", "]", "{", "}", "(", ")", "<", ">", "\""}

\* The label inside the shape delimiters of the node line of step k
NodeLabel(k) ==
  LET line == mermaid[k + 1]
      shape == mm_shape(steps[k])
  IN SubSeq(line, 2 + Len(steps[k].id) + Len(shape[1]) + 1, Len(line) - Len(shape[2]))

\* C8: the label of every node line holds none of [ ] { } ( ) < > " and is
\* not empty; a text with nothing but such characters and spaces gets NO-OP.
C8_LabelSafe ==
  stage = "done" =>
    \A k \in DOMAIN steps :
      LET label == NodeLabel(k)
      IN /\ label # <<>>
         /\ \A i \in DOMAIN label : label[i] \notin LabelForbidden
         /\ (\A i \in DOMAIN steps[k].text :
               steps[k].text[i] \in LabelForbidden \cup SpaceChars)
              => label = Chars("NO-OP")

\* A graph has been written for a text that sanitizes to nothing, a text
\* with quotes and angle brackets, and a text longer than the label cap.
C8_Witness ==
  /\ stage = "done"
  /\ \/ \E k, m \in DOMAIN steps :
          /\ steps[k].text = Chars("( )")
          /\ \E i, j \in DOMAIN steps[m].text :
               steps[m].text[i] = "\"" /\ steps[m].text[j] = "<"
     \/ \E k \in DOMAIN steps :
          Len(steps[k].text) > LabelMax /\ Len(NodeLabel(k)) < LabelMax

\* The loop iterations and calls the pipeline has completed: lines
\* normalized, build_steps, the begin of to_pseudocode, steps rendered,
\* blocks and procedures closed, the end of to_pseudocode, to_mermaid.
Progress ==
  CASE stage = "normalize" -> ni
    [] stage = "begin" -> Len(code) + 1
    [] stage = "steps" -> Len(code) + 2 + si + (pushes - StackSize(pst))
    [] stage = "mermaid" -> Len(code) + 2 + Len(steps) + pushes + 1
    [] stage \in {"done", "error"} -> Len(code) + 2 + Len(steps) + pushes + 2
    [] OTHER -> 0

InPipeline == stage \in {"normalize", "begin", "steps", "mermaid"}

\* C9: the pipeline reaches no error and ends: each of its steps advances
\* Progress, which never exceeds 3 * len(lines) + 6; it leaves a pseudocode
\* whose first line is BEGIN and last line is END and a graph whose first
\* line is flowchart TD.
C9_Totality ==
  /\ [](stage # "error")
  /\ [](Progress <= 3 * Len(code) + 6)
  /\ [][InPipeline => Progress' > Progress]_vars
  /\ [](stage = "done" =>
          /\ pseudocode # <<>>
          /\ pseudocode[1] = Chars("BEGIN")
          /\ pseudocode[Len(pseudocode)] = Chars("END")
          /\ mermaid # <<>>
          /\ mermaid[1] = Chars("flowchart TD"))

\* The pipeline has ended for a program that opened blocks.
C9_Witness == stage = "done" /\ Len(steps) >= 4 /\ pushes >= 2 /\ Len(pseudocode) >= 6

ClaimedOrder == <<"function", "if", "elif", "else", "for", "while", "do", "switch",
                  "case", "default", "return", "io_in", "io_out">>

\* The positions in ClaimedOrder of the categories with a recognizer that
\* matches text
Hits(text) == {i \in DOMAIN ClaimedOrder : detect_matches(text, ClaimedOrder[i])}

\* C10: the category of every classified line is the first category of the
\* order function, if, elif, else, for, while, do, switch, case, default,
\* return, io_in, io_out with a matching recognizer, process exactly when
\* none matches, and never start or end.
C10_FirstMatchWins ==
  stage = "begin" =>
    \A k \in 2..(Len(steps) - 1) :
      LET hits == Hits(nst.out[k - 1][2])
      IN /\ steps[k].type = IF hits = {} THEN "process" ELSE ClaimedOrder[Min(hits)]
         /\ steps[k].type \notin {"start", "end"}

\* Lines have been classified where the order decides and where nothing
\* matches.
C10_Witness ==
  /\ stage = "begin"
  /\ \E k \in 2..(Len(steps) - 1) :
       Cardinality(Hits(nst.out[k - 1][2])) >= 3 /\ steps[k].type = "function"
  /\ \E k \in 2..(Len(steps) - 1) : steps[k].type = "process"

\* The line declares the node numbered k: two spaces, N, the decimal digits
\* of k, then something that is not a digit.
DeclaresNode(l, k) ==
  /\ StartsWith(l, Chars("  N"))
  /\ \E j \in 4..(Len(l) - 1) :
       /\ ParseInt(SubSeq(l, 4, j)) = [ok |-> TRUE, val |-> k]
       /\ l[j + 1] \notin Digits \cup SpaceChars

\* The line is the edge from the node numbered a to the node numbered b.
IsEdge(l, a, b) ==
  /\ StartsWith(l, Chars("  N"))
  /\ \E i \in 5..(Len(l) - 6) :
       /\ SubSeq(l, i, i + 5) = Chars(" --> N")
       /\ SubSeq(l, 4, i - 1) = IntStr(a)
       /\ SubSeq(l, i + 6, Len(l)) = IntStr(b)

\* C11: for n >= 2 steps the graph has exactly n node declarations, the k-th
\* declaring N<k> (from 0) in step order, and exactly n - 1 edges, the k-th
\* being N<k> --> N<k+1>: a linear chain, whatever the step types.
C11_LinearChain ==
  stage = "done" =>
    LET n == Len(steps)
        nodes == NodeLines(mermaid)
        edges == EdgeLines(mermaid)
    IN /\ n >= 2
       /\ Len(nodes) = n
       /\ \A k \in 1..n : DeclaresNode(nodes[k], k - 1)
       /\ nodes = SubSeq(mermaid, 2, n + 1)
       /\ Len(edges) = n - 1
       /\ \A k \in 1..(n - 1) : IsEdge(edges[k], k - 1, k)
       /\ edges = SubSeq(mermaid, n + 2, 2 * n)

\* A graph has been written for at least five steps, a decision among them.
C11_Witness ==
  /\ stage = "done"
  /\ Len(steps) >= 5
  /\ \E k \in DOMAIN steps : steps[k].type \in DecisionTypes
  /\ Len(EdgeLines(mermaid)) = Len(steps) - 1

\* The number of space characters a line begins with
LeadingSpaces(raw) ==
  CHOOSE n \in 0..Len(raw) :
    /\ \A i \in 1..n : raw[i] = " "
    /\ n = Len(raw) \/ raw[n + 1] # " "

\* The line is blank or holds only a comment
IsNoise(raw) ==
  LET t == Strip(raw)
  IN t = <<>> \/ \E m \in {Chars("//"), Chars("#"), Chars("/*")} : StartsWith(t, m)

\* The line is a python block introducer: it ends in : and begins with a
\* block keyword
IsIntroducer(raw) ==
  LET t == Strip(raw)
  IN /\ t # <<>>
     /\ t[Len(t)] = ":"
     /\ \E kw \in {Chars("if "), Chars("elif "), Chars("else"), Chars("for "),
                   Chars("while "), Chars("def "), Chars("class ")} : StartsWith(t, kw)

\* The line is recorded by normalize_indentation: it is neither noise nor a
\* lone brace
IsRecorded(raw) ==
  ~IsNoise(raw) /\ Strip(raw) \notin {Chars("}"), Chars("};"), Chars("{")}

\* normalize_indentation, under python, has just recorded line ni, which
\* follows a block introducer
AfterIntroducer ==
  /\ stage = "normalize"
  /\ lang = "python"
  /\ ni >= 2
  /\ IsIntroducer(code[ni - 1])
  /\ IsRecorded(code[ni])

\* C12 as claimed: under python the depth recorded for a line that follows a
\* block introducer is one more than the line's leading spaces divided by 4.
C12_AsClaimed ==
  AfterIntroducer =>
    nst.out[Len(nst.out)] = <<LeadingSpaces(code[ni]) \div 4 + 1, Strip(code[ni])>>

\* C12 amended: under python the depth recorded for a line that follows a
\* block introducer is the line's leading spaces divided by 4, nothing added:
\* the increment made after the introducer is overwritten before the line
\* is recorded.
C12_RecordedDepth ==
  AfterIntroducer =>
    nst.out[Len(nst.out)] = <<LeadingSpaces(code[ni]) \div 4, Strip(code[ni])>>

\* A line has been recorded right after a block introducer, its own depth
\* differing from the counter the introducer left.
C12_Witness ==
  /\ AfterIntroducer
  /\ nst.out # <<>>
  /\ LeadingSpaces(code[ni]) \div 4 # LeadingSpaces(code[ni - 1]) \div 4 + 1

\* The counter c after a decrement clamped at 0
Clamped(c) == IF c >= 1 THEN c - 1 ELSE 0

\* What C13 says one line does, in a brace language, to the counter and the
\* emitted lines: before is the record before the line, after the one after.
BraceRule(before, after, raw) ==
  LET t == Strip(raw)
      c == before.indent_level
  IN IF t \in {Chars("}"), Chars("};")}
     THEN after = [indent_level |-> Clamped(c), out |-> before.out]
     ELSE IF t = Chars("{")
     THEN after = [indent_level |-> c + 1, out |-> before.out]
     ELSE /\ after.out = Append(before.out, <<c, t>>)
          /\ after.indent_level =
               IF EndsWith(t, Chars("{")) THEN c + 1
               ELSE IF EndsWith(t, Chars("};")) THEN Clamped(c)
               ELSE c

\* The input's blocks are all opened by lines ending in { and closed by lines
\* that are exactly }: no line ends in };, no } comes without an open block,
\* and every block is closed.
Opens(lines, n) ==
  Cardinality({i \in 1..n : ~IsNoise(lines[i]) /\ EndsWith(Strip(lines[i]), Chars("{"))})

Closes(lines, n) == Cardinality({i \in 1..n : Strip(lines[i]) = Chars("}")})

WellBraced(lines) ==
  /\ \A i \in DOMAIN lines : IsNoise(lines[i]) \/ ~EndsWith(Strip(lines[i]), Chars("};"))
  /\ \A n \in DOMAIN lines : Closes(lines, n) <= Opens(lines, n)
  /\ Closes(lines, Len(lines)) = Opens(lines, Len(lines))

\* The positions, in order, of the lines among the first n that are recorded
RecordedUpTo(lines, n) ==
  SelectSeq([i \in 1..n |-> i], LAMBDA i : IsRecorded(lines[i]))

\* For well-braced input each emitted depth is the number of blocks open at
\* the line, and the counter is 0 after the last line.
DepthIsOpenBlocks ==
  (stage = "normalize" /\ lang # "python" /\ WellBraced(code)) =>
    LET at == RecordedUpTo(code, ni)
    IN /\ Len(nst.out) = Len(at)
       /\ \A j \in DOMAIN at :
            nst.out[j][1] = Opens(code, at[j] - 1) - Closes(code, at[j] - 1)
       /\ ni = Len(code) => nst.indent_level = 0

\* One iteration of normalize_indentation runs in a brace language
BraceStep == stage = "normalize" /\ lang # "python" /\ ni' = ni + 1

\* C13 as claimed: in a brace language a line that is exactly } or };
\* decrements the counter (clamped at 0) and emits nothing, a line that is
\* exactly { increments it and emits nothing, and any other line is emitted
\* at the counter held before it, after which the counter is incremented if
\* the line ends in { and decremented (clamped) if it ends in };. For
\* well-braced input each emitted depth is then the number of open blocks
\* and the counter is 0 at the end.
C13_AsClaimed ==
  /\ [][BraceStep => BraceRule(nst, nst', code[ni + 1])]_vars
  /\ []DepthIsOpenBlocks

\* C13 amended: the same rule for every line that is not blank and not
\* comment-only; a blank or comment-only line is not emitted and leaves the
\* counter alone, even when it ends in { or };.
C13_BraceCounter ==
  /\ [][BraceStep => IF IsNoise(code[ni + 1]) THEN nst' = nst
                     ELSE BraceRule(nst, nst', code[ni + 1])]_vars
  /\ []DepthIsOpenBlocks

\* A well-braced input with a comment has been normalized in a brace
\* language: a line was emitted inside a block and the block was closed.
C13_Witness ==
  /\ stage = "normalize"
  /\ lang # "python"
  /\ ni = Len(code)
  /\ WellBraced(code)
  /\ \E i \in DOMAIN code : IsNoise(code[i])
  /\ \E j \in DOMAIN nst.out : nst.out[j][1] = 1
  /\ \E i \in DOMAIN code : Strip(code[i]) = Chars("}")
  /\ nst.indent_level = 0

\* The position of the innermost control block in a list of open blocks
\* (0 if none)
LastCtrl(open) == Max({0} \cup {i \in DOMAIN open : open[i].stack = "ctrl"})

\* The list of open blocks without its innermost control block
DropLastCtrl(open) ==
  LET p == LastCtrl(open)
  IN IF p = 0 THEN open ELSE SubSeq(open, 1, p - 1) \o SubSeq(open, p + 1, Len(open))

\* The rendering of the first k steps replayed with a record of the blocks
\* it opened: st is the renderer's state, open lists the blocks still open,
\* outermost first, each with the stack it sits on and the indentation at
\* which its opening line was written. Emitted(k) is taken when the line of
\* step k has been written, Replay(k) when step k is finished.
RECURSIVE Replay(_), Emitted(_)
Emitted(k) ==
  LET r == Replay(k - 1)
      e == emit_step(r.st, steps[k])
  IN [st |-> e,
      open |-> IF Len(e.func_stack) > Len(r.st.func_stack)
               THEN Append(r.open, [stack |-> "func", indent |-> r.st.indent])
               ELSE IF Len(e.ctrl_stack) > Len(r.st.ctrl_stack)
               THEN Append(r.open, [stack |-> "ctrl", indent |-> r.st.indent])
               ELSE r.open]

Replay(k) ==
  IF k = 0 THEN [st |-> pseudo_begin, open |-> <<>>]
  ELSE IF steps[k].type \in {"start", "end"} THEN Replay(k - 1)
  ELSE LET em == Emitted(k)
           after == close_on_keyword(em.st, steps[k])
       IN [st |-> after,
           open |-> IF Len(after.ctrl_stack) < Len(em.st.ctrl_stack)
                    THEN DropLastCtrl(em.open) ELSE em.open]

\* The indentation at which the opening line of the innermost open control
\* block was written, before step si + 1
TopBlockIndent == LET open == Replay(si).open IN open[LastCtrl(open)].indent

\* The indentation, in units of two spaces, of the line a step has just
\* appended to the pseudocode
WrittenIndent == LeadingSpaces(pst'.pc[Len(pst.pc) + 1]) \div 2

TopIsIf == pst.ctrl_stack # <<>> /\ pst.ctrl_stack[Len(pst.ctrl_stack)] = "IF"

ElseStep == stage = "steps" /\ si' = si + 1 /\ steps[si + 1].type \in {"elif", "else"}

\* C14: when an elif or else step is rendered while IF is on top of the
\* control stack, its line is written at the indentation at which the
\* IF ... THEN line of that IF was written and the control stack is the
\* same after the step as before; otherwise the line is written at the
\* current indentation and neither the stacks nor the indentation change.
C14_ElseAlignsWithIf ==
  [][ElseStep =>
       /\ Len(pst'.pc) > Len(pst.pc)
       /\ IF TopIsIf
          THEN /\ WrittenIndent = TopBlockIndent
               /\ pst'.ctrl_stack = pst.ctrl_stack
          ELSE /\ WrittenIndent = pst.indent
               /\ pst'.ctrl_stack = pst.ctrl_stack
               /\ pst'.func_stack = pst.func_stack
               /\ pst'.indent = pst.indent]_vars

\* The closing line of each kind of control block
EndLineFor(kind) ==
  CASE kind = "IF" -> Chars("END IF")
    [] kind = "FOR" -> Chars("END FOR")
    [] kind = "WHILE" -> Chars("END WHILE")
    [] kind = "DO" -> Chars("END DO")
    [] kind = "SWITCH" -> Chars("END SWITCH")
    [] kind = "CASE" -> Chars("// END CASE")

ButLast(seq) == SubSeq(seq, 1, Len(seq) - 1)

\* Every step has been rendered and to_pseudocode has not yet returned
AtEndOfSteps == stage = "steps" /\ si = Len(steps)

\* C15: once the steps are exhausted, to_pseudocode pops the control stack
\* from the top, writing the END line of each popped kind, until it is
\* empty, only then pops the function stack from the top, writing
\* END PROCEDURE  // <name> for each popped name, and with both stacks empty
\* writes the last line END with no indentation, like the first line BEGIN.
C15_ClosingOrder ==
  /\ [][(AtEndOfSteps /\ stage' = "steps") =>
          /\ pst'.pc = Append(pst.pc, pst'.pc[Len(pst'.pc)])
          /\ IF pst.ctrl_stack # <<>>
             THEN /\ pst'.ctrl_stack = ButLast(pst.ctrl_stack)
                  /\ pst'.func_stack = pst.func_stack
                  /\ Strip(pst'.pc[Len(pst'.pc)])
                       = EndLineFor(pst.ctrl_stack[Len(pst.ctrl_stack)])
             ELSE /\ pst.func_stack # <<>>
                  /\ pst'.func_stack = ButLast(pst.func_stack)
                  /\ Strip(pst'.pc[Len(pst'.pc)])
                       = Chars("END PROCEDURE  // ") \o pst.func_stack[Len(pst.func_stack)]]_vars
  /\ [][(AtEndOfSteps /\ stage' # "steps") =>
          /\ pst.ctrl_stack = <<>>
          /\ pst.func_stack = <<>>
          /\ pseudocode' = Append(pst.pc, Chars("END"))
          /\ pseudocode'[1] = Chars("BEGIN")]_vars

\* The steps are exhausted, the control blocks left open have been closed
\* and a procedure is still to be closed.
C15_Witness ==
  /\ AtEndOfSteps
  /\ pushes >= 2
  /\ pst.ctrl_stack = <<>>
  /\ pst.func_stack # <<>>
  /\ Strip(pst.pc[Len(pst.pc)]) \in ControlEnds

\* A step whose text holds closing-keyword evidence is rendered
KeywordStep ==
  /\ stage = "steps"
  /\ si' = si + 1
  /\ steps[si + 1].type \notin {"start", "end"}
  /\ has_closing_keyword(steps[si + 1].text)

\* C16: when the line of a step whose text holds closing-keyword evidence
\* has been written and the control stack is not empty, exactly one block is
\* popped, the END line of the popped kind is written at the indentation of
\* the popped block's opening line, and the indentation goes down by one;
\* with an empty control stack nothing more happens. The popped block may
\* be the one the step itself pushed.
C16_KeywordClosesOneBlock ==
  [][KeywordStep =>
       LET em == Emitted(si + 1)
           e == em.st
           last == pst'.pc[Len(pst'.pc)]
       IN IF e.ctrl_stack # <<>>
          THEN /\ pst'.ctrl_stack = ButLast(e.ctrl_stack)
               /\ pst'.func_stack = e.func_stack
               /\ pst'.pc = Append(e.pc, last)
               /\ Strip(last) = EndLineFor(e.ctrl_stack[Len(e.ctrl_stack)])
               /\ LeadingSpaces(last) \div 2 = em.open[LastCtrl(em.open)].indent
               /\ pst'.indent = e.indent - 1
          ELSE pst' = e]_vars

\* C17: a line that matches a recognizer of if or of elif and also a
\* recognizer of function is classified as a conditional (if or elif), not
\* as function: the conditionals are tested first.
C17_ConditionalBeforeFunction ==
  stage = "begin" =>
    \A k \in 2..(Len(steps) - 1) :
      LET text == nst.out[k - 1][2]
      IN (/\ detect_matches(text, "if") \/ detect_matches(text, "elif")
          /\ detect_matches(text, "function"))
           => steps[k].type \in {"if", "elif"}

\* The shape delimiters and the class C18 gives each step category
ClaimedGroup(type) ==
  IF type \in {"start", "end"}
  THEN [open |-> Chars("("), close |-> Chars(")"), class |-> Chars("term")]
  ELSE IF type \in {"if", "elif", "else", "while", "switch", "case", "default"}
  THEN [open |-> Chars("{"), close |-> Chars("}"), class |-> Chars("decision")]
  ELSE IF type \in {"io_in", "io_out"}
  THEN [open |-> Chars("[/"), close |-> Chars("/]"), class |-> Chars("io")]
  ELSE [open |-> Chars("["), close |-> Chars("]"), class |-> Chars("process")]

ClassNames == {Chars("term"), Chars("io"), Chars("decision"), Chars("process")}

\* The classes the graph assigns to the node id
ClassesOf(id) ==
  {c \in ClassNames :
     \E i \in DOMAIN mermaid : mermaid[i] = Chars("  class ") \o id \o Chars(" ") \o c \o Chars(";")}

\* C18: every step's node line has the shape of its category's group, (...)
\* for start and end, {...} for if, elif, else, while, switch, case and
\* default, [/.../] for io_in and io_out, [...] for every other category,
\* and the node is assigned exactly one class, the one of the same group:
\* term, decision, io, process.
C18_ShapeAndClass ==
  stage = "done" =>
    /\ \A k \in DOMAIN steps :
         LET g == ClaimedGroup(steps[k].type)
             line == mermaid[k + 1]
         IN /\ StartsWith(line, Chars("  ") \o steps[k].id \o g.open)
            /\ EndsWith(line, g.close)
            /\ g.class = Chars("process") =>
                 ~(StartsWith(line, Chars("  ") \o steps[k].id \o Chars("[/"))
                   /\ EndsWith(line, Chars("/]")))
            /\ ClassesOf(steps[k].id) = {g.class}
    /\ Len(SelectSeq(mermaid, LAMBDA l : StartsWith(l, Chars("  class ")))) = Len(steps)

\* A graph has been written with its terminators, a parallelogram and the
\* diamond of an else or case step.
C18_Witness ==
  /\ stage = "done"
  /\ \E k \in DOMAIN steps : steps[k].type \in {"io_in", "io_out"}
  /\ \E k \in DOMAIN steps : steps[k].type \in {"else", "case"}

\* One iteration of normalize_indentation runs on a blank or comment-only
\* line
NoiseStep == stage = "normalize" /\ ni' = ni + 1 /\ IsNoise(code[ni + 1])

\* The input without its blank and comment-only lines
WithoutNoise(lines) == SelectSeq(lines, LAMBDA l : ~IsNoise(l))

\* C19: in every language a blank or comment-only line (//, # or /* first)
\* emits nothing and leaves the depth counter as it was; the emitted texts
\* are, in order, a subsequence of the stripped input lines; and the output
\* is the output for the input with its blank and comment-only lines
\* removed.
C19_NoiseIsInert ==
  /\ [][NoiseStep => nst' = nst]_vars
  /\ [](stage = "normalize" =>
          IsSubsequence([j \in DOMAIN nst.out |-> nst.out[j][2]],
                        Stripped(SubSeq(code, 1, ni))))
  /\ [](stage = "begin" => nst.out = normalize_indentation(WithoutNoise(code), lang))

\* In a brace language a comment inside an open block has been skipped and
\* the line after it emitted at depth 1.
C19_Witness ==
  /\ stage = "begin"
  /\ lang # "python"
  /\ \E i \in 2..(Len(code) - 1) :
       /\ IsNoise(code[i])
       /\ EndsWith(code[i - 1], Chars("{"))
       /\ IsRecorded(code[i + 1])
  /\ \E j \in DOMAIN nst.out : nst.out[j][1] = 1

\* The steps with the indent of step k replaced by depth[k]
WithIndents(depth) == [k \in DOMAIN steps |-> [steps[k] EXCEPT !.indent = depth[k]]]

\* Other nesting depths for the same steps: all 0, all 3, rising, falling,
\* and the recorded depths plus one
OtherIndents ==
  { [k \in DOMAIN steps |-> 0],
    [k \in DOMAIN steps |-> 3],
    [k \in DOMAIN steps |-> k],
    [k \in DOMAIN steps |-> Len(steps) - k],
    [k \in DOMAIN steps |-> steps[k].indent + 1] }

\* C20: the pseudocode does not depend on the steps' indent fields: steps
\* of the same types and texts with other indents give the same pseudocode.
C20_IndentIgnored ==
  stage = "done" =>
    \A depth \in OtherIndents : to_pseudocode(WithIndents(depth)) = pseudocode

\* A pseudocode has been written for steps recorded at different depths, at
\* 2 or deeper for one, with blocks opened.
C20_Witness ==
  /\ stage = "done"
  /\ pushes >= 2
  /\ \E k \in DOMAIN steps : steps[k].indent >= 2
  /\ \E k \in DOMAIN steps : steps[k].indent = 1
  /\ Len(pseudocode) >= 6

\* The kind of block a pseudocode line opens, "" if it opens none
OpenedKind(line) ==
  LET l == Strip(line)
  IN IF StartsWith(l, Chars("PROCEDURE ")) THEN "PROCEDURE"
     ELSE IF StartsWith(l, Chars("IF ")) THEN "IF"
     ELSE IF StartsWith(l, Chars("FOR ")) THEN "FOR"
     ELSE IF StartsWith(l, Chars("WHILE ")) THEN "WHILE"
     ELSE IF l = Chars("DO") THEN "DO"
     ELSE IF StartsWith(l, Chars("SWITCH")) THEN "SWITCH"
     ELSE IF StartsWith(l, Chars("CASE ")) \/ l = Chars("DEFAULT:") THEN "CASE"
     ELSE ""

\* The kind of block a pseudocode line closes, "" if it closes none
ClosedKind(line) ==
  LET l == Strip(line)
  IN IF StartsWith(l, Chars("END PROCEDURE")) THEN "PROCEDURE"
     ELSE IF l = Chars("END IF") THEN "IF"
     ELSE IF l = Chars("END FOR") THEN "FOR"
     ELSE IF l = Chars("END WHILE") THEN "WHILE"
     ELSE IF l = Chars("END DO") THEN "DO"
     ELSE IF l = Chars("END SWITCH") THEN "SWITCH"
     ELSE IF l = Chars("// END CASE") THEN "CASE"
     ELSE ""

\* Reading lines with the kinds open (innermost last) of the blocks opened
\* before them, every closing line closes the innermost open block.
RECURSIVE ClosesInnermost(_, _)
ClosesInnermost(lines, open) ==
  IF lines = <<>> THEN TRUE
  ELSE LET l == Head(lines)
       IN IF ClosedKind(l) # ""
          THEN /\ open # <<>>
               /\ open[Len(open)] = ClosedKind(l)
               /\ ClosesInnermost(Tail(lines), SubSeq(open, 1, Len(open) - 1))
          ELSE IF OpenedKind(l) # ""
          THEN ClosesInnermost(Tail(lines), Append(open, OpenedKind(l)))
          ELSE ClosesInnermost(Tail(lines), open)

\* C21: the opening and closing lines of the pseudocode are well nested
\* across procedures and control blocks together: every END <KIND>,
\* // END CASE and END PROCEDURE line closes the block opened last among
\* those still open, so a PROCEDURE opened inside a control block is closed
\* before that block.
C21_WellNested ==
  stage = "done" => ClosesInnermost(pseudocode, <<>>)


====
